---- MODULE Spec2Model ----
(***************************************************************************)
(* A model of the hermes crawler (package hermes, Runner.Crawl and its     *)
(* handlers) running on the fetchbot dispatcher.                           *)
(*                                                                         *)
(* Strings that the code takes apart are modelled as sequences of tokens:  *)
(* a host "www.site.test" is <<"www", ".", "site", ".", "test">>, so that  *)
(* strings.Split, strings.Join, normalizeLink, getDomain and getTLD are    *)
(* computed the way the code computes them.  A URL string is the tuple     *)
(* <<scheme, host, path, fragment>>; url.Parse and URL.String convert      *)
(* between that tuple and the url.URL record.                              *)
(***************************************************************************)
EXTENDS Integers, Sequences, FiniteSets, TLC

\* ------------------------------------------------------------------ bounds
\* Largest MaximumDocuments a Runner of the model is configured with.
MaxDocs == 3
\* The crawl delay of the fetcher, in clock ticks (f.CrawlDelay).
CrawlDelay == 1
\* The count of HEAD sends of one URL string is kept up to this number.
MaxCount == 2

\* ------------------------------------------------------- strings and URLs
Dot == "."

RECURSIVE DotIndex(_, _)
\* index of the first "." of s at or after position i, 0 when there is none
DotIndex(s, i) ==
    IF i > Len(s) THEN 0
    ELSE IF s[i] = Dot THEN i
    ELSE DotIndex(s, i + 1)

RECURSIVE Split(_)
\* strings.Split(s, "."): the labels of s; Split of "" is the one label ""
Split(s) ==
    LET i == DotIndex(s, 1)
    IN  IF i = 0 THEN <<s>>
        ELSE <<SubSeq(s, 1, i - 1)>> \o Split(SubSeq(s, i + 1, Len(s)))

RECURSIVE Join(_)
\* strings.Join(labels, "."): "" for no label
Join(labels) ==
    IF Len(labels) = 0 THEN <<>>
    ELSE IF Len(labels) = 1 THEN labels[1]
    ELSE labels[1] \o <<Dot>> \o Join(Tail(labels))

\* url.Parse of a URL string
ParseURL(s) == [scheme |-> s[1], host |-> s[2], path |-> s[3], frag |-> s[4]]

\* (*url.URL).String
String(u) == <<u.scheme, u.host, u.path, u.frag>>

\* the URL string "" (the Link of the zero Document)
EmptyString == <<"", <<>>, "", "">>

\* remove the www from the URL host
normalizeLink(u) ==
    LET s == Split(u.host)
    IN  IF Len(s) = 0 THEN u
        ELSE IF s[1] = <<"www">> THEN [u EXCEPT !.host = Join(Tail(s))]
        ELSE u

\* the domain with the tld on it; Go indexes s from 0, last is len(s)-1
getDomain(u) ==
    LET s    == Split(u)
        last == Len(s) - 1
    IN  IF Len(s) = 0 THEN u
        ELSE IF last = 1 THEN s[1] \o <<Dot>> \o s[last + 1]
        ELSE IF last > 1 THEN s[last] \o <<Dot>> \o s[last + 1]
        ELSE <<>>

\* the last assignment of the function, tld = u, decides its result
getTLD(u) ==
    LET s == Split(u)
    IN  IF Len(s) = 0 THEN u
        ELSE u

\* strings.Contains(u.String(), "mailto:"): the only part of a URL string of
\* the model that can hold "mailto:" is its scheme
ContainsMailto(s) == s[1] = "mailto"

\* --------------------------------------------------------------- the site
H_site  == <<"site", Dot, "test">>
H_www   == <<"www", Dot, "site", Dot, "test">>
H_a     == <<"a", Dot, "site", Dot, "test">>
H_b     == <<"b", Dot, "site", Dot, "test">>
H_other == <<"other", Dot, "org">>
H_ww    == <<"www", Dot, "www", Dot, "other", Dot, "org">>
H_local == <<"localhost">>
H_intra == <<"intranet">>

Hosts == {H_site, H_www, H_a, H_b, H_other, H_ww, H_local, H_intra}

Http(host, path) == <<"http", host, path, "">>

\* the hrefs of the root page, in document order
RootLinks ==
    << <<"", <<>>, "/about", "">>,           \* /about
       Http(H_www, "/"),                      \* the root page, www form
       Http(H_site, "/about"),
       Http(H_a, "/x"),
       <<"mailto", <<>>, "", "">>,            \* mailto:bot@site.test
       <<"http", H_site, "/about", "top">>,   \* http://site.test/about#top
       Http(H_other, "/"),
       Http(H_www, "/about"),                 \* /about again, www form
       Http(H_site, "/gone"),
       <<"", <<>>, "/contact", "">>,          \* /contact
       Http(H_ww, "/"),                       \* http://www.www.other.org/
       Http(H_site, "/missing") >>            \* answered with 404

\* the hrefs of /about
AboutLinks ==
    << Http(H_site, "/"),
       Http(H_a, "/x"),
       Http(H_b, "/y"),
       Http(H_site, "/doc.pdf") >>

\* the hrefs of the root page of http://localhost/
LocalLinks ==
    << Http(H_intra, "/"),
       <<"", <<>>, "/about", "">> >>

\* the elements of the body of the site's root page: <p>Hello</p><p>World</p>
RootBody == << [tag |-> "p", text |-> <<"Hello">>], [tag |-> "p", text |-> <<"World">>] >>

\* the body of /about: <div>About\n us</div>
AboutBody == << [tag |-> "div", text |-> <<"About", "\n", " ", "us">>] >>

\* the <meta> elements of a page, in document order: the root page has two
\* descriptions and a keywords element, the other pages have none
Metas(s) ==
    IF s[3] = "/" /\ s[2] \in {H_site, H_www}
    THEN << [name |-> "keywords", content |-> <<"crawler">>],
            [name |-> "Description", content |-> <<"first">>],
            [name |-> "description", content |-> <<"second", "\n">>] >>
    ELSE <<>>

Html == "text/html"

\* What the web server answers for a URL string: err is a failed fetch,
\* scrapeErr a failure of the GET that the scrape step issues itself.  The
\* host www.site.test serves the pages of site.test.
Serve(s) ==
    LET host == IF s[2] = H_www THEN H_site ELSE s[2]
        page(st, ct, ls, e, se, b) ==
            [status |-> st, ctype |-> ct, links |-> ls, err |-> e, scrapeErr |-> se,
             body |-> b]
    IN  CASE host = H_site /\ s[3] = "/"        -> page(200, Html, RootLinks, FALSE, FALSE, RootBody)
          [] host = H_site /\ s[3] = "/about"   -> page(200, Html, AboutLinks, FALSE, FALSE, AboutBody)
          [] host = H_site /\ s[3] = "/doc.pdf" -> page(200, "application/pdf", <<>>, FALSE, FALSE, <<>>)
          [] host = H_site /\ s[3] = "/gone"    -> page(0, "", <<>>, TRUE, TRUE, <<>>)
          [] host = H_a /\ s[3] = "/x"          -> page(200, Html, <<>>, FALSE, TRUE, <<>>)
          [] host = H_b /\ s[3] = "/y"          -> page(200, Html, <<>>, FALSE, TRUE, <<>>)
          [] host = H_local /\ s[3] = "/"       -> page(200, Html, LocalLinks, FALSE, FALSE, <<>>)
          [] host = H_intra /\ s[3] = "/"       -> page(200, Html, <<>>, FALSE, FALSE, <<>>)
          [] OTHER                              -> page(404, Html, <<>>, FALSE, FALSE, <<>>)

\* the seed URLs a Runner of the model is configured with
Seeds == {Http(H_site, "/"), Http(H_www, "/"), Http(H_local, "/")}

\* the values of StopAtURL and of CancelAtURL: "", http://site.test/about or
\* http://a.site.test/x
StopURLs == {EmptyString, Http(H_site, "/about"), Http(H_a, "/x")}

\* ------------------------------------------------------------------ state
VARIABLES
    cfg,          \* the Runner: URL, MaximumDocuments, TopLevelDomain, Subdomain,
                  \* StopAtURL, CancelAtURL
    crawlPc,      \* where Crawl is
    crawlErr,     \* TRUE when Crawl returned an error
    dup,          \* the duplicates table: the URL strings mapped to true
    mu,           \* the mutex: <<>> when free, else the host of the worker holding it
    ingestionSet, \* r.ingestionSet
    handled,      \* for each Document of ingestionSet, the response whose handling appended it
    qState,       \* the fetchbot queue: "none", "open", "closed" or "cancelled"
    hostQ,        \* the commands queued for each host's worker
    w,            \* each host worker: pc, command, response, link index
    pending,      \* the goroutines started to shut the queue down and not yet run
    headSent,     \* how many times each URL string was sent to the queue as a HEAD
    sinceReq,     \* ticks since the last HTTP request to each host (Never: no request yet)
    wait,         \* ticks left of the crawl delay each worker waits for
    minGap,       \* the least gap seen between two consecutive requests to one host
    timer,        \* the goroutine of the stop or cancel duration: pc, minutes elapsed
                  \* since it was started, the operations it has called and when
    e,            \* the Elasticsearch value Store is called on: Host, Index, Type
    storeN,       \* Store's argument n
    docs,         \* Store's argument docs
    storePc,      \* where Store is: "idle" (not called), "start", "wait", "returned",
                  \* or "exited" when log.Fatal has ended the process
    storeErr,     \* the error Store returned or logged as fatal ("" for nil)
    client,       \* TRUE once elastic.NewClient has made the client
    ctxDone,      \* the errgroup's context is cancelled
    prod,         \* the first goroutine: pc, index into docs, error
    cons,         \* the second goroutine: pc, error
    bulk,         \* the requests added to the bulk service and not yet sent
    commits,      \* the calls of bulk.Do so far: the documents sent and the outcome
    total,        \* the counter total
    hostArg,      \* the host string a function of a host is called with
    fnCalled,     \* the function called with it, "" before the call
    fnRet         \* what the call returned

crawlVars == <<cfg, crawlPc, crawlErr, dup, mu, ingestionSet, handled, qState, hostQ, w,
               pending, headSent, sinceReq, wait, minGap, timer>>

storeVars == <<e, storeN, docs, storePc, storeErr, client, ctxDone, prod, cons, bulk,
               commits, total>>

fnVars == <<hostArg, fnCalled, fnRet>>

vars == <<crawlVars, storeVars, fnVars>>

\* the value of sinceReq for a host that no request went to yet
Never == 0 - 1
MuFree == <<>>

NoCmd == [method |-> "", url |-> EmptyString]
NoRes == [status |-> 0, ctype |-> "", err |-> FALSE]
Idle  == [pc |-> "idle", cmd |-> NoCmd, res |-> NoRes, i |-> 0]

\* every URL string that the site can make the crawler handle
URLStrings ==
    LET hrefs == {RootLinks[i] : i \in 1..Len(RootLinks)}
                 \cup {AboutLinks[i] : i \in 1..Len(AboutLinks)}
                 \cup {LocalLinks[i] : i \in 1..Len(LocalLinks)} \cup Seeds
    IN  hrefs \cup {String(normalizeLink(ParseURL(s))) : s \in hrefs}

\* the zero Document that Scrape returns with an error
EmptyDocument == [link |-> EmptyString, description |-> <<>>, content |-> <<>>]

Min(a, b) == IF a < b THEN a ELSE b

\* the Runners of the model; http://a.site.test/x is set as the one or as the
\* other of StopAtURL and CancelAtURL, http://site.test/about also as both
Runners ==
    {r \in [seed : Seeds, n : (-1)..MaxDocs, tld : BOOLEAN, sub : BOOLEAN,
            stopAt : StopURLs, cancelAt : StopURLs, stopDur : {0}, cancelDur : {0},
            autoClose : {FALSE}] :
        Http(H_a, "/x") \in {r.stopAt, r.cancelAt} => EmptyString \in {r.stopAt, r.cancelAt}}

\* the zero Document of Store: no ID
NoDocument == [name |-> "", ID |-> ""]

\* a goroutine of Store that has not been started; v is its loop variable
NoGoroutine == [pc |-> "none", i |-> 0, err |-> "", v |-> NoDocument]

\* Store is not called
StoreIdle ==
    /\ e = [Host |-> "", Index |-> "", Type |-> ""]
    /\ storeN = 0
    /\ docs = <<>>
    /\ storePc = "idle"
    /\ storeErr = ""
    /\ client = FALSE
    /\ ctxDone = FALSE
    /\ prod = NoGoroutine
    /\ cons = NoGoroutine
    /\ bulk = <<>>
    /\ commits = <<>>
    /\ total = 0

\* no function of a host is called on its own
FnIdle ==
    /\ hostArg = <<>>
    /\ fnCalled = ""
    /\ fnRet = <<>>

\* no duration goroutine was started
NoTimer == [pc |-> "none", elapsed |-> 0, called |-> {}]

Init ==
    /\ cfg \in Runners
    /\ crawlPc = "start"
    /\ crawlErr = FALSE
    /\ dup = {}
    /\ mu = MuFree
    /\ ingestionSet = <<>>
    /\ handled = <<>>
    /\ qState = "none"
    /\ hostQ = [h \in Hosts |-> <<>>]
    /\ w = [h \in Hosts |-> Idle]
    /\ pending = {}
    /\ headSent = [s \in URLStrings |-> 0]
    /\ sinceReq = [h \in Hosts |-> Never]
    /\ wait = [h \in Hosts |-> 0]
    /\ minGap = CrawlDelay
    /\ timer = NoTimer
    /\ StoreIdle
    /\ FnIdle

\* ------------------------------------------------------- fetchbot's queue
\* Queue.Send accepts a command while the queue is open and the URL has a host
SendOK(s) == qState = "open" /\ s[2] # <<>>

\* the command goes to the worker of its URL's host
Enqueue(q, method, s) ==
    [q EXCEPT ![s[2]] = Append(@, [method |-> method, url |-> String(ParseURL(s))])]

\* an HTTP request goes out to host h: the gap since the previous one is noted
Request(h) ==
    /\ minGap' = IF sinceReq[h] = Never THEN minGap ELSE Min(minGap, sinceReq[h])
    /\ sinceReq' = [sinceReq EXCEPT ![h] = 0]

\* the handler returns to the worker, which starts the crawl delay unless the
\* request failed
Return(h, res) ==
    /\ w' = [w EXCEPT ![h] = Idle]
    /\ wait' = [wait EXCEPT ![h] = IF res.err THEN 0 ELSE CrawlDelay]

\* ------------------------------------------------------------------ Crawl
\* the check as a bug would have it: -1 passes
InvalidConfig_Strict == cfg.n < 0 - 1

\* the check of MaximumDocuments at the top of Crawl
InvalidConfig == cfg.n < 0

\* is the goroutine of the durations launched
HasDuration == cfg.stopDur > 0 \/ cfg.cancelDur > 0

\* Crawl up to the seed: the configuration check, the mux, the fetcher,
\* f.Start() and the goroutine of the stop or cancel duration
Crawl ==
    /\ crawlPc = "start"
    /\ IF InvalidConfig
       THEN /\ crawlPc' = "returned"
            /\ crawlErr' = TRUE
            /\ UNCHANGED <<qState, timer>>
       ELSE /\ crawlPc' = "started"
            /\ qState' = "open"
            /\ timer' = IF HasDuration THEN [NoTimer EXCEPT !.pc = "armed"] ELSE timer
            /\ UNCHANGED crawlErr
    /\ UNCHANGED <<storeVars, fnVars, cfg, dup, mu, ingestionSet, handled, hostQ, w, pending, headSent,
                   sinceReq, wait, minGap>>

\* dup[r.URL.String()] = true
CrawlSeedDup ==
    /\ crawlPc = "started"
    /\ dup' = dup \cup {cfg.seed}
    /\ crawlPc' = "seeded"
    /\ UNCHANGED <<storeVars, fnVars, cfg, timer, crawlErr, mu, ingestionSet, handled, qState, hostQ, w, pending,
                   headSent, sinceReq, wait, minGap>>

\* q.SendStringGet(r.URL.String()); an error is logged and Crawl goes on
CrawlSeedSend ==
    /\ crawlPc = "seeded"
    /\ IF SendOK(cfg.seed)
       THEN hostQ' = Enqueue(hostQ, "GET", cfg.seed)
       ELSE UNCHANGED hostQ
    /\ crawlPc' = "blocked"
    /\ UNCHANGED <<storeVars, fnVars, cfg, timer, crawlErr, dup, mu, ingestionSet, handled, qState, w, pending,
                   headSent, sinceReq, wait, minGap>>

\* Block as a bug would have it: it returns as soon as the queue is shut,
\* whatever is still queued
Drained_Early ==
    /\ \A h \in Hosts : w[h].pc = "idle"
    /\ qState \in {"cancelled", "closed"}

\* q.Block() returns once the queue is shut down and every worker has ended:
\* at once after a Cancel, after the queued commands are done after a Close
Drained ==
    /\ \A h \in Hosts : w[h].pc = "idle"
    /\ \/ qState = "cancelled"
       \/ qState = "closed" /\ \A h \in Hosts : hostQ[h] = <<>>

CrawlReturn ==
    /\ crawlPc = "blocked"
    /\ Drained
    /\ crawlPc' = "returned"
    /\ UNCHANGED <<storeVars, fnVars, cfg, timer, crawlErr, dup, mu, ingestionSet, handled, qState, hostQ, w,
                   pending, headSent, sinceReq, wait, minGap>>

\* ------------------------------------------------------- the host workers
\* a worker takes its next command once the crawl delay is over, unless the
\* queue was cancelled, and issues the request
doRequest(h) ==
    /\ w[h].pc = "idle"
    /\ hostQ[h] # <<>>
    /\ qState \in {"open", "closed"}
    /\ wait[h] = 0
    /\ w' = [w EXCEPT ![h] = [pc |-> "inflight", cmd |-> Head(hostQ[h]),
                              res |-> NoRes, i |-> 0]]
    /\ hostQ' = [hostQ EXCEPT ![h] = Tail(@)]
    /\ Request(h)
    /\ UNCHANGED <<storeVars, fnVars, cfg, timer, crawlPc, crawlErr, dup, mu, ingestionSet, handled, qState,
                   pending, headSent, wait>>

\* the response of the command's URL
Response(cmd) ==
    LET page == Serve(cmd.url)
    IN  [status |-> page.status, ctype |-> page.ctype, err |-> page.err]

\* the cap test of scrapeHandler: may this response still be scraped.  The
\* length is read without mu; the read is a step of its own, so that other
\* workers' appends fall before or after it, and the append comes later.
UnderCap(res) == ~res.err /\ Len(ingestionSet) < cfg.n

\* the else-if as a bug would have it: > for >=
CapHit_OffByOne == Len(ingestionSet) > cfg.n

\* the else-if of scrapeHandler
CapHit == Len(ingestionSet) >= cfg.n

\* Crawl wraps the handler in stopHandler when a stop or cancel URL is set
\* and watches CancelAtURL when both are
Wrapped == cfg.stopAt # EmptyString \/ cfg.cancelAt # EmptyString

\* the choice as a bug would have it: StopAtURL is watched when both are set
StopURL_StopFirst == IF cfg.stopAt # EmptyString THEN cfg.stopAt ELSE cfg.cancelAt

\* stopURL: CancelAtURL when it is set, else StopAtURL
StopURL == IF cfg.cancelAt # EmptyString THEN cfg.cancelAt ELSE cfg.stopAt

\* the test as a bug would have it: only the response to a GET is matched
StopMatch_GetOnly(cmd) == Wrapped /\ cmd.url = StopURL /\ cmd.method = "GET"

\* the test of stopHandler on a command
StopMatch(cmd) == Wrapped /\ cmd.url = StopURL

\* stopHandler as a bug would have it: Close or Cancel is called from the
\* handler itself; the queue is shut to new commands and the call then waits
\* for the workers to end, this one included
stopHandler_Inline(h) ==
    /\ w[h].pc = "inflight"
    /\ StopMatch(w[h].cmd)
    /\ qState' = IF cfg.cancelAt # EmptyString THEN "cancelled"
                 ELSE IF qState = "open" THEN "closed" ELSE qState
    /\ w' = [w EXCEPT ![h].pc = "shutdown"]
    /\ UNCHANGED <<storeVars, fnVars, cfg, timer, crawlPc, crawlErr, dup, mu, ingestionSet, handled, pending,
                   hostQ, headSent, sinceReq, wait, minGap>>

\* The response for the stop URL arrives: a goroutine is started to Cancel
\* or Close the queue and the handler returns.
stopHandler(h) ==
    /\ w[h].pc = "inflight"
    /\ StopMatch(w[h].cmd)
    /\ pending' = pending \cup {IF cfg.cancelAt # EmptyString THEN "cancel" ELSE "close"}
    /\ Return(h, Response(w[h].cmd))
    /\ UNCHANGED <<storeVars, fnVars, cfg, timer, crawlPc, crawlErr, dup, mu, ingestionSet, handled, qState,
                   hostQ, headSent, sinceReq, minGap>>

\* The response arrives and scrapeHandler runs up to its call of Scrape, which
\* issues its own GET, or up to the Cancel it requests.
scrapeHandler(h) ==
    /\ w[h].pc = "inflight"
    /\ ~StopMatch(w[h].cmd)
    /\ LET res == Response(w[h].cmd)
       IN  IF UnderCap(res)
           THEN IF res.status = 200
                THEN /\ w' = [w EXCEPT ![h].pc = "append", ![h].res = res]
                     /\ Request(h)
                     /\ UNCHANGED <<pending, wait>>
                ELSE /\ w' = [w EXCEPT ![h].pc = "mux", ![h].res = res]
                     /\ UNCHANGED <<pending, wait, sinceReq, minGap>>
           ELSE IF CapHit
                THEN /\ pending' = pending \cup {"cap"}
                     /\ Return(h, res)
                     /\ UNCHANGED <<sinceReq, minGap>>
                ELSE /\ w' = [w EXCEPT ![h].pc = "mux", ![h].res = res]
                     /\ UNCHANGED <<pending, wait, sinceReq, minGap>>
    /\ UNCHANGED <<storeVars, fnVars, cfg, timer, crawlPc, crawlErr, dup, mu, ingestionSet, handled, qState,
                   hostQ, headSent>>

\* ---------------------------------------------------------- the scraper
\* Texts are sequences of tokens: words, " " and "\n".
Space == " "
Newline == "\n"

\* strings.Replace(s, old, new, -1) for one-token old and new
Replace(s, old, new) == [i \in 1..Len(s) |-> IF s[i] = old THEN new ELSE s[i]]

IsSpace(c) == c = Space \/ c = Newline

RECURSIVE TrimLeft(_)
TrimLeft(s) == IF s # <<>> /\ IsSpace(Head(s)) THEN TrimLeft(Tail(s)) ELSE s

RECURSIVE TrimRight(_)
TrimRight(s) ==
    IF s # <<>> /\ IsSpace(s[Len(s)]) THEN TrimRight(SubSeq(s, 1, Len(s) - 1)) ELSE s

\* strings.TrimSpace
TrimSpace(s) == TrimRight(TrimLeft(s))

RECURSIVE FindText(_, _)
\* s.Find(tag).Text(): the texts of the matched elements, one after the other
FindText(body, tag) ==
    IF body = <<>> THEN <<>>
    ELSE (IF Head(body).tag = tag THEN Head(body).text ELSE <<>>)
         \o FindText(Tail(body), tag)

\* returnText: the text under body for a tag or for "default"
returnText(body, tag) ==
    IF tag = "default"
    THEN <<Space>> \o FindText(body, "p") \o <<Space>> \o FindText(body, "div")
    ELSE <<Space>> \o FindText(body, tag)

\* the two clean-up lines applied to every text
Clean(text) ==
    TrimSpace(Replace(TrimSpace(Replace(text, Newline, Space)), Space, Space))

RECURSIVE TagsContent(_, _)
\* the loop over the configured tags: content += " " + text
TagsContent(body, tags) ==
    IF tags = <<>> THEN <<>>
    ELSE <<Space>> \o Clean(returnText(body, Head(tags))) \o TagsContent(body, Tail(tags))

\* r.Tags of the Runner of the model: no tag list
Tags == <<>>

\* strings.ToLower on the names of the site's meta elements
ToLower(name) == IF name = "Description" THEN "description" ELSE name

\* strings.EqualFold
EqualFold(a, b) == ToLower(a) = ToLower(b)

RECURSIVE EachMeta(_, _)
\* doc.Find("meta").Each: every element named description assigns d.Description
EachMeta(metas, description) ==
    IF metas = <<>> THEN description
    ELSE EachMeta(Tail(metas),
                  IF EqualFold(Head(metas).name, "description")
                  THEN Clean(Head(metas).content)
                  ELSE description)

\* scrapeDocument: the Document of a page
scrapeDocument(s, body, tags) ==
    [link    |-> s,
     description |-> EachMeta(Metas(s), <<>>),
     content |-> IF Len(tags) > 0
                 THEN TagsContent(body, tags)
                 ELSE <<Space>> \o Clean(returnText(body, "default"))]

\* the Document that Scrape returns for a URL string
Scrape(s) ==
    IF Serve(s).scrapeErr THEN EmptyDocument ELSE scrapeDocument(s, Serve(s).body, Tags)

\* Scrape has returned; mu.Lock(), the append, mu.Unlock()
appendDocument(h) ==
    /\ w[h].pc = "append"
    /\ mu = MuFree
    /\ ingestionSet' = Append(ingestionSet, Scrape(w[h].cmd.url))
    /\ handled' = Append(handled, [method |-> w[h].cmd.method, url |-> w[h].cmd.url,
                                   status |-> w[h].res.status, ctype |-> w[h].res.ctype])
    /\ w' = [w EXCEPT ![h].pc = "mux"]
    /\ UNCHANGED <<storeVars, fnVars, cfg, timer, crawlPc, crawlErr, dup, mu, qState, hostQ, pending, headSent,
                   sinceReq, wait, minGap>>

\* ---------------------------------------------------------------- the mux
\* mux.HandleErrors: the error is logged
muxErrors(h) ==
    /\ w[h].pc = "mux"
    /\ w[h].res.err
    /\ Return(h, w[h].res)
    /\ UNCHANGED <<storeVars, fnVars, cfg, timer, crawlPc, crawlErr, dup, mu, ingestionSet, handled, qState,
                   hostQ, pending, headSent, sinceReq, minGap>>

\* Method("GET").ContentType("text/html")
MatchGet(cmd, res) == ~res.err /\ cmd.method = "GET" /\ res.ctype = Html

\* Method("HEAD").Host(r.URL.Host).ContentType("text/html")
MatchHead(cmd, res) ==
    /\ ~res.err
    /\ cmd.method = "HEAD"
    /\ ParseURL(cmd.url).host = ParseURL(cfg.seed).host
    /\ res.ctype = Html

\* the GET handler: the body is parsed and enqueueLinks takes mu
muxGet(h) ==
    /\ w[h].pc = "mux"
    /\ MatchGet(w[h].cmd, w[h].res)
    /\ mu = MuFree
    /\ mu' = h
    /\ w' = [w EXCEPT ![h].pc = "links", ![h].i = 1]
    /\ UNCHANGED <<storeVars, fnVars, cfg, timer, crawlPc, crawlErr, dup, ingestionSet, handled, qState, hostQ,
                   pending, headSent, sinceReq, wait, minGap>>

\* the HEAD handler: ctx.Q.SendStringGet(ctx.Cmd.URL().String())
muxHead(h) ==
    /\ w[h].pc = "mux"
    /\ MatchHead(w[h].cmd, w[h].res)
    /\ IF SendOK(w[h].cmd.url)
       THEN hostQ' = Enqueue(hostQ, "GET", w[h].cmd.url)
       ELSE UNCHANGED hostQ
    /\ Return(h, w[h].res)
    /\ UNCHANGED <<storeVars, fnVars, cfg, timer, crawlPc, crawlErr, dup, mu, ingestionSet, handled, qState,
                   pending, headSent, sinceReq, minGap>>

\* no handler of the mux matches the response
muxUnmatched(h) ==
    /\ w[h].pc = "mux"
    /\ ~w[h].res.err
    /\ ~MatchGet(w[h].cmd, w[h].res)
    /\ ~MatchHead(w[h].cmd, w[h].res)
    /\ Return(h, w[h].res)
    /\ UNCHANGED <<storeVars, fnVars, cfg, timer, crawlPc, crawlErr, dup, mu, ingestionSet, handled, qState,
                   hostQ, pending, headSent, sinceReq, minGap>>

\* ----------------------------------------------------------- enqueueLinks
\* the three scope tests of enqueueLinks, on the normalized link u
InScope(u) ==
    LET root == ParseURL(cfg.seed).host
    IN  \/ cfg.tld /\ cfg.sub /\ getDomain(root) = getDomain(u.host)
        \/ cfg.tld /\ ~cfg.sub /\ getDomain(root) = getTLD(u.host)
        \/ cfg.sub /\ ~cfg.tld /\ getDomain(root) = getDomain(u.host)

\* addLink as a bug would have it: the HEAD is sent and the string not marked
addLink_NoMark(s) ==
    IF SendOK(s)
    THEN /\ hostQ' = Enqueue(hostQ, "HEAD", s)
         /\ headSent' = [headSent EXCEPT ![s] = Min(@ + 1, MaxCount)]
         /\ UNCHANGED dup
    ELSE UNCHANGED <<hostQ, headSent, dup>>

\* addLink as a bug would have it: the table is made anew for the string
addLink_Reset(s) ==
    IF SendOK(s)
    THEN /\ hostQ' = Enqueue(hostQ, "HEAD", s)
         /\ headSent' = [headSent EXCEPT ![s] = Min(@ + 1, MaxCount)]
         /\ dup' = {s}
    ELSE UNCHANGED <<hostQ, headSent, dup>>

\* addLink as a bug would have it: the string is marked whether or not the
\* HEAD could be sent
addLink_MarkAlways(s) ==
    /\ dup' = dup \cup {s}
    /\ IF SendOK(s)
       THEN /\ hostQ' = Enqueue(hostQ, "HEAD", s)
            /\ headSent' = [headSent EXCEPT ![s] = Min(@ + 1, MaxCount)]
       ELSE UNCHANGED <<hostQ, headSent>>

\* addLink: the HEAD is sent, and when that worked the string is marked
addLink(s) ==
    IF SendOK(s)
    THEN /\ hostQ' = Enqueue(hostQ, "HEAD", s)
         /\ headSent' = [headSent EXCEPT ![s] = Min(@ + 1, MaxCount)]
         /\ dup' = dup \cup {s}
    ELSE UNCHANGED <<hostQ, headSent, dup>>

\* the skip test as a bug would have it: only mail links are skipped
Skipped_MailOnly(u) == ContainsMailto(String(u))

\* is the href skipped before normalization: a mail link or a fragment
Skipped(u) == ContainsMailto(String(u)) \/ u.frag # ""

\* one round of the Each loop of enqueueLinks, under mu
enqueueLinks(h) ==
    /\ w[h].pc = "links"
    /\ w[h].i <= Len(Serve(w[h].cmd.url).links)
    /\ LET val == Serve(w[h].cmd.url).links[w[h].i]
           u   == normalizeLink(ParseURL(val))
       IN  IF ~Skipped(ParseURL(val)) /\ String(u) \notin dup /\ InScope(u)
           THEN addLink(String(u))
           ELSE UNCHANGED <<hostQ, headSent, dup>>
    /\ w' = [w EXCEPT ![h].i = @ + 1]
    /\ UNCHANGED <<storeVars, fnVars, cfg, timer, crawlPc, crawlErr, mu, ingestionSet, handled, qState, pending,
                   sinceReq, wait, minGap>>

\* the loop is over: mu.Unlock() and the handler returns
enqueueLinksDone(h) ==
    /\ w[h].pc = "links"
    /\ w[h].i > Len(Serve(w[h].cmd.url).links)
    /\ mu' = MuFree
    /\ Return(h, w[h].res)
    /\ UNCHANGED <<storeVars, fnVars, cfg, timer, crawlPc, crawlErr, dup, ingestionSet, handled, qState, hostQ,
                   pending, headSent, sinceReq, minGap>>

\* ------------------------------------------------------- shutdown and time
\* a goroutine started by scrapeHandler or by stopHandler runs ctx.Q.Cancel():
\* the queue takes no more commands and the workers drop the queued ones
Cancel ==
    /\ \E t \in pending \cap {"cap", "cancel"} : pending' = pending \ {t}
    /\ qState' = "cancelled"
    /\ UNCHANGED <<storeVars, fnVars, cfg, timer, crawlPc, crawlErr, dup, mu, ingestionSet, handled, hostQ, w,
                   headSent, sinceReq, wait, minGap>>

\* the goroutine started by stopHandler runs ctx.Q.Close(): the queue takes
\* no more commands and the workers finish the queued ones
Close ==
    /\ "close" \in pending
    /\ pending' = pending \ {"close"}
    /\ qState' = IF qState = "open" THEN "closed" ELSE qState
    /\ UNCHANGED <<storeVars, fnVars, cfg, timer, crawlPc, crawlErr, dup, mu, ingestionSet, handled, hostQ, w,
                   headSent, sinceReq, wait, minGap>>

\* one tick of the clock
Tick ==
    /\ \E h \in Hosts : wait[h] > 0 \/ (sinceReq[h] # Never /\ sinceReq[h] < CrawlDelay)
    /\ wait' = [h \in Hosts |-> IF wait[h] > 0 THEN wait[h] - 1 ELSE 0]
    /\ sinceReq' = [h \in Hosts |->
                      IF sinceReq[h] = Never THEN Never ELSE Min(sinceReq[h] + 1, CrawlDelay)]
    /\ UNCHANGED <<storeVars, fnVars, cfg, timer, crawlPc, crawlErr, dup, mu, ingestionSet, handled, qState, hostQ,
                   w, pending, headSent, minGap>>

Next ==
    \/ Crawl
    \/ CrawlSeedDup
    \/ CrawlSeedSend
    \/ CrawlReturn
    \/ \E h \in Hosts : doRequest(h)
    \/ \E h \in Hosts : stopHandler(h)
    \/ \E h \in Hosts : scrapeHandler(h)
    \/ \E h \in Hosts : appendDocument(h)
    \/ \E h \in Hosts : muxErrors(h)
    \/ \E h \in Hosts : muxGet(h)
    \/ \E h \in Hosts : muxHead(h)
    \/ \E h \in Hosts : muxUnmatched(h)
    \/ \E h \in Hosts : enqueueLinks(h)
    \/ \E h \in Hosts : enqueueLinksDone(h)
    \/ Cancel
    \/ Close
    \/ Tick

Spec == Init /\ [][Next]_vars

\* ------------------------------------------- durations and the idle timeout
\* Runs with StopDuration, CancelDuration (minutes) and AutoClose set.
MaxDuration == 2

\* the Runners of these runs: on the small site of http://localhost/ the
\* durations in all combinations and AutoClose (with a WorkerIdleTTL > 0) on
\* and off, and on http://site.test/ one Runner with a StopAtURL
OptionRunners ==
    LET base == [seed |-> Http(H_local, "/"), n |-> MaxDocs, tld |-> TRUE, sub |-> TRUE,
                 stopAt |-> EmptyString, cancelAt |-> EmptyString,
                 stopDur |-> 0, cancelDur |-> 0, autoClose |-> FALSE]
    IN  {[base EXCEPT !.stopDur = s, !.cancelDur = c, !.autoClose = a] :
             s \in 0..MaxDuration, c \in 0..MaxDuration, a \in BOOLEAN}
        \cup {[base EXCEPT !.seed = Http(H_site, "/"), !.stopAt = Http(H_site, "/about"),
                           !.stopDur = 1]}

InitOptions ==
    /\ cfg \in OptionRunners
    /\ crawlPc = "start"
    /\ crawlErr = FALSE
    /\ dup = {}
    /\ mu = MuFree
    /\ ingestionSet = <<>>
    /\ handled = <<>>
    /\ qState = "none"
    /\ hostQ = [h \in Hosts |-> <<>>]
    /\ w = [h \in Hosts |-> Idle]
    /\ pending = {}
    /\ headSent = [s \in URLStrings |-> 0]
    /\ sinceReq = [h \in Hosts |-> Never]
    /\ wait = [h \in Hosts |-> 0]
    /\ minGap = CrawlDelay
    /\ timer = NoTimer
    /\ StoreIdle
    /\ FnIdle

\* after and stopFunc as Crawl sets them for the goroutine
After == IF cfg.cancelDur # 0 THEN cfg.cancelDur ELSE cfg.stopDur

StopFunc == IF cfg.cancelDur # 0 THEN "cancel" ELSE "close"

\* a minute passes while the goroutine waits on time.After(after)
Minute ==
    /\ timer.pc = "armed"
    /\ timer.elapsed < After
    /\ timer' = [timer EXCEPT !.elapsed = @ + 1]
    /\ UNCHANGED <<storeVars, fnVars, cfg, crawlPc, crawlErr, dup, mu, ingestionSet, handled, qState, hostQ,
                   w, pending, headSent, sinceReq, wait, minGap>>

\* the channel of time.After delivers and the goroutine calls stopFunc()
DurationElapsed ==
    /\ timer.pc = "armed"
    /\ timer.elapsed >= After
    /\ timer' = [timer EXCEPT !.pc = "done",
                              !.called = @ \cup {<<StopFunc, timer.elapsed>>}]
    /\ pending' = pending \cup {StopFunc}
    /\ UNCHANGED <<storeVars, fnVars, cfg, crawlPc, crawlErr, dup, mu, ingestionSet, handled, qState, hostQ,
                   w, headSent, sinceReq, wait, minGap>>

\* fetchbot with AutoClose: every host worker has been idle for WorkerIdleTTL
\* and has ended; the last one to end starts go f.q.Close()
WorkerIdle ==
    /\ cfg.autoClose
    /\ qState = "open" /\ crawlPc = "blocked"
    /\ \E h \in Hosts : sinceReq[h] # Never
    /\ \A h \in Hosts : w[h].pc = "idle" /\ hostQ[h] = <<>>
    /\ "close" \notin pending
    /\ pending' = pending \cup {"close"}
    /\ UNCHANGED <<storeVars, fnVars, cfg, timer, crawlPc, crawlErr, dup, mu, ingestionSet, handled, qState,
                   hostQ, w, headSent, sinceReq, wait, minGap>>

NextOptions ==
    \/ Next
    \/ Minute
    \/ DurationElapsed
    \/ WorkerIdle

SpecOptions == InitOptions /\ [][NextOptions]_vars

\* ------------------------------------------------- Crawl called more than once
\* Runs of a process that calls Crawl again after it has returned, on the
\* same Runner or on a new one.
AgainRunners ==
    LET base == [seed |-> Http(H_local, "/"), n |-> 1, tld |-> TRUE, sub |-> TRUE,
                 stopAt |-> EmptyString, cancelAt |-> EmptyString,
                 stopDur |-> 0, cancelDur |-> 0, autoClose |-> FALSE]
    IN  {base,
         [base EXCEPT !.seed = Http(H_site, "/")],
         [base EXCEPT !.seed = Http(H_site, "/"), !.n = MaxDocs,
                      !.stopAt = Http(H_site, "/about")]}

InitAgain ==
    /\ cfg \in AgainRunners
    /\ crawlPc = "start"
    /\ crawlErr = FALSE
    /\ dup = {}
    /\ mu = MuFree
    /\ ingestionSet = <<>>
    /\ handled = <<>>
    /\ qState = "none"
    /\ hostQ = [h \in Hosts |-> <<>>]
    /\ w = [h \in Hosts |-> Idle]
    /\ pending = {}
    /\ headSent = [s \in URLStrings |-> 0]
    /\ sinceReq = [h \in Hosts |-> Never]
    /\ wait = [h \in Hosts |-> 0]
    /\ minGap = CrawlDelay
    /\ timer = NoTimer
    /\ StoreIdle
    /\ FnIdle

\* Crawl has returned and the program calls Crawl again, on the same Runner
\* or on a new one (whose ingestionSet is nil).  The package variable dup is
\* what it is; the fetcher and its queue are made anew by this call.
CrawlAgain ==
    /\ crawlPc = "returned"
    /\ \E r \in AgainRunners :
          /\ cfg' = r
          /\ \/ r = cfg /\ UNCHANGED <<ingestionSet, handled>>
             \/ ingestionSet' = <<>> /\ handled' = <<>>
    /\ crawlPc' = "start"
    /\ crawlErr' = FALSE
    /\ qState' = "none"
    /\ hostQ' = [h \in Hosts |-> <<>>]
    /\ pending' = {}
    /\ sinceReq' = [h \in Hosts |-> Never]
    /\ wait' = [h \in Hosts |-> 0]
    /\ UNCHANGED <<storeVars, fnVars, dup, mu, w, headSent, minGap, timer>>

NextAgain ==
    \/ Next
    \/ CrawlAgain

SpecAgain == InitAgain /\ [][NextAgain]_vars

\* ------------------------------------- StopAtURL and CancelAtURL both set
\* the Runners of these runs: the two URLs set to different pages, either
\* way round, and StopAtURL set alone
BothRunners ==
    {r \in [seed : {Http(H_site, "/")}, n : {MaxDocs}, tld : {TRUE}, sub : {TRUE},
            stopAt : StopURLs \ {EmptyString}, cancelAt : StopURLs,
            stopDur : {0}, cancelDur : {0}, autoClose : {FALSE}] :
        r.stopAt # r.cancelAt}

InitBoth ==
    /\ cfg \in BothRunners
    /\ crawlPc = "start"
    /\ crawlErr = FALSE
    /\ dup = {}
    /\ mu = MuFree
    /\ ingestionSet = <<>>
    /\ handled = <<>>
    /\ qState = "none"
    /\ hostQ = [h \in Hosts |-> <<>>]
    /\ w = [h \in Hosts |-> Idle]
    /\ pending = {}
    /\ headSent = [s \in URLStrings |-> 0]
    /\ sinceReq = [h \in Hosts |-> Never]
    /\ wait = [h \in Hosts |-> 0]
    /\ minGap = CrawlDelay
    /\ timer = NoTimer
    /\ StoreIdle
    /\ FnIdle

SpecBoth == InitBoth /\ [][Next]_vars

\* ------------------------------------------------------------------ Store
\* (*Elasticsearch).Store of store.go.  A bulk request is sent when it holds
\* BatchSize documents (1000 in the source, scaled down here).
BatchSize == 2
MaxStoreDocs == 4

\* the documents a caller passes: one as the scraper leaves it, without an
\* ID, and one that has an ID already
Documents == {[name |-> "d1", ID |-> ""], [name |-> "d2", ID |-> "given"]}

\* what base64.URLEncoding.EncodeToString gives for 32 random bytes: one of
\* the strings of 44 characters
NewIDs == {"id1", "id2"}

\* the sequences over S of length up to k
RECURSIVE SeqsUpTo(_, _)
SeqsUpTo(S, k) ==
    IF k = 0 THEN {<<>>}
    ELSE SeqsUpTo(S, k - 1) \cup {Append(s, x) : s \in {q \in SeqsUpTo(S, k - 1) : Len(q) = k - 1}, x \in S}

\* what the sink answers to a bulk.Do: no error, an error, or a response with
\* Errors set (some items failed)
Outcomes == {"ok", "err", "errors"}

InitStore ==
    /\ e \in [Host : {"", "http://es:9200"}, Index : {"", "hermes"}, Type : {"", "document"}]
    /\ storeN \in (0 - 1)..(MaxStoreDocs + 1)
    /\ docs \in SeqsUpTo(Documents, MaxStoreDocs)
    /\ storePc = "start"
    /\ storeErr = ""
    /\ client = FALSE
    /\ ctxDone = FALSE
    /\ prod = NoGoroutine
    /\ cons = NoGoroutine
    /\ bulk = <<>>
    /\ commits = <<>>
    /\ total = 0
    /\ cfg \in {r \in Runners : r.seed = Http(H_site, "/") /\ r.n = 0 /\ r.tld /\ r.sub
                                /\ r.stopAt = EmptyString /\ r.cancelAt = EmptyString}
    /\ crawlPc = "start"
    /\ crawlErr = FALSE
    /\ dup = {}
    /\ mu = MuFree
    /\ ingestionSet = <<>>
    /\ handled = <<>>
    /\ qState = "none"
    /\ hostQ = [h \in Hosts |-> <<>>]
    /\ w = [h \in Hosts |-> Idle]
    /\ pending = {}
    /\ headSent = [s \in URLStrings |-> 0]
    /\ sinceReq = [h \in Hosts |-> Never]
    /\ wait = [h \in Hosts |-> 0]
    /\ minGap = CrawlDelay
    /\ timer = NoTimer
    /\ FnIdle

\* the first failing check of Store's arguments, "" when they pass
Invalid ==
    IF e.Host = "" THEN "missing host parameter"
    ELSE IF e.Index = "" THEN "missing index parameter"
    ELSE IF e.Type = "" THEN "missing type parameter"
    ELSE IF storeN <= 0 THEN "n must be a positive number"
    ELSE ""

\* log.Fatal logs the entry and calls os.Exit(1): the return that follows it
\* in the source is never reached
Fatal(msg) ==
    /\ storePc' = "exited"
    /\ storeErr' = msg

\* Store up to g.Wait(): the checks, the client, the two goroutines
Store ==
    /\ storePc = "start"
    /\ IF Invalid # ""
       THEN /\ Fatal(Invalid)
            /\ UNCHANGED <<client, prod, cons>>
       ELSE \E made \in BOOLEAN :
               IF made
               THEN /\ client' = TRUE
                    /\ prod' = [NoGoroutine EXCEPT !.pc = "loop", !.i = 1]
                    /\ cons' = [NoGoroutine EXCEPT !.pc = "recv"]
                    /\ storePc' = "wait"
                    /\ UNCHANGED storeErr
               ELSE /\ Fatal("no Elasticsearch node available")
                    /\ UNCHANGED <<client, prod, cons>>
    /\ UNCHANGED <<crawlVars, fnVars, e, storeN, docs, ctxDone, bulk, commits, total>>

\* a goroutine of the group returns err: the first error cancels the context
Returns(g, err) == [g EXCEPT !.pc = "done", !.err = err]

\* the loop as a bug would have it, ranging by index: the ID is written into
\* the element of docs itself
producerNext_InPlace ==
    /\ prod.pc = "loop"
    /\ IF prod.i <= Len(docs)
       THEN \E read \in BOOLEAN, id \in NewIDs :
               /\ docs' = IF read THEN [docs EXCEPT ![prod.i].ID = id] ELSE docs
               /\ prod' = IF read THEN [prod EXCEPT !.pc = "send", !.v = docs'[prod.i]]
                          ELSE Returns(prod, "rand.Read error")
               /\ ctxDone' = (ctxDone \/ ~read)
       ELSE /\ prod' = Returns(prod, "")
            /\ UNCHANGED <<ctxDone, docs>>
    /\ UNCHANGED <<crawlVars, fnVars, e, storeN, storePc, storeErr, client, cons,
                   bulk, commits, total>>

\* the first goroutine at the top of its loop: v, the copy of the next
\* document, gets its ID and is offered on docsc, or rand.Read returns an error and the goroutine
\* returns it (the branch of the source; math/rand documents that its Read
\* never fails); after the last document docsc is closed
producerNext ==
    /\ prod.pc = "loop"
    /\ IF prod.i <= Len(docs)
       THEN \E read \in BOOLEAN, id \in NewIDs :
               /\ prod' = IF read
                          THEN [prod EXCEPT !.pc = "send",
                                            !.v = [docs[prod.i] EXCEPT !.ID = id]]
                          ELSE Returns(prod, "rand.Read error")
               /\ ctxDone' = (ctxDone \/ ~read)
       ELSE /\ prod' = Returns(prod, "")
            /\ UNCHANGED ctxDone
    /\ UNCHANGED <<crawlVars, fnVars, e, storeN, docs, storePc, storeErr, client, cons,
                   bulk, commits, total>>

\* the send as a bug would have it, a plain docsc <- v without the select:
\* the first goroutine stays blocked when the context is cancelled
producerCancelled_NoSelect ==
    /\ prod.pc = "send"
    /\ ctxDone
    /\ UNCHANGED vars

\* select case <-ctx.Done(): the first goroutine gives up the send
producerCancelled ==
    /\ prod.pc = "send"
    /\ ctxDone
    /\ prod' = Returns(prod, "context canceled")
    /\ UNCHANGED <<crawlVars, fnVars, e, storeN, docs, storePc, storeErr, client, ctxDone, cons,
                   bulk, commits, total>>

\* docsc <- v meets for d := range docsc: the second goroutine counts the
\* document and adds it to the bulk request
handoff ==
    /\ prod.pc = "send"
    /\ cons.pc = "recv"
    /\ prod' = [prod EXCEPT !.pc = "loop", !.i = @ + 1, !.v = NoDocument]
    /\ total' = total + 1
    /\ bulk' = Append(bulk, prod.v)
    /\ cons' = [cons EXCEPT !.pc = IF Len(bulk') >= BatchSize THEN "commit" ELSE "check"]
    /\ UNCHANGED <<crawlVars, fnVars, e, storeN, docs, storePc, storeErr, client, ctxDone, commits>>

\* bulk.Do(ctx) of a full batch, with the checks of err and of res.Errors
commit ==
    /\ cons.pc = "commit"
    /\ \E out \in Outcomes :
          /\ commits' = Append(commits, [docs |-> bulk, outcome |-> out])
          /\ cons' = IF out = "err" THEN Returns(cons, "bulk.Do error")
                     ELSE IF out = "errors" THEN Returns(cons, "bulk commit failed")
                     ELSE [cons EXCEPT !.pc = "check"]
          /\ ctxDone' = (ctxDone \/ out # "ok")
    /\ bulk' = <<>>
    /\ UNCHANGED <<crawlVars, fnVars, e, storeN, docs, storePc, storeErr, client, prod, total>>

\* the select at the end of the loop body of the second goroutine
consumerCheck ==
    /\ cons.pc = "check"
    /\ cons' = IF ctxDone THEN Returns(cons, "context canceled")
               ELSE [cons EXCEPT !.pc = "recv"]
    /\ UNCHANGED <<crawlVars, fnVars, e, storeN, docs, storePc, storeErr, client, ctxDone, prod,
                   bulk, commits, total>>

\* docsc is closed and drained: the final batch is sent; only err is looked at
finalCommit ==
    /\ cons.pc = "recv"
    /\ prod.pc = "done"
    /\ IF Len(bulk) > 0
       THEN \E out \in Outcomes :
               /\ commits' = Append(commits, [docs |-> bulk, outcome |-> out])
               /\ cons' = Returns(cons, IF out = "err" THEN "bulk.Do error" ELSE "")
               /\ ctxDone' = (ctxDone \/ out = "err")
               /\ bulk' = <<>>
       ELSE /\ cons' = Returns(cons, "")
            /\ UNCHANGED <<commits, ctxDone, bulk>>
    /\ UNCHANGED <<crawlVars, fnVars, e, storeN, docs, storePc, storeErr, client, prod, total>>

\* g.Wait() returns the first error of the group: Store logs it as fatal, or
\* prints the statistics and returns nil
storeReturn ==
    /\ storePc = "wait"
    /\ prod.pc = "done" /\ cons.pc = "done"
    /\ LET err == IF cons.err # "" THEN cons.err ELSE prod.err
       IN  IF err # "" THEN Fatal(err)
           ELSE storePc' = "returned" /\ UNCHANGED storeErr
    /\ UNCHANGED <<crawlVars, fnVars, e, storeN, docs, client, ctxDone, prod, cons, bulk, commits,
                   total>>

NextStore ==
    \/ Store
    \/ producerNext
    \/ producerCancelled
    \/ handoff
    \/ commit
    \/ consumerCheck
    \/ finalCommit
    \/ storeReturn

SpecStore == InitStore /\ [][NextStore]_vars

\* the steps of the first goroutine, of the second, and of Store itself
Producer == producerNext \/ producerCancelled \/ handoff

Consumer == handoff \/ commit \/ consumerCheck \/ finalCommit

\* Store under the Go scheduler: a goroutine that can run does run
SpecStoreFair ==
    /\ InitStore
    /\ [][NextStore]_vars
    /\ WF_vars(Store)
    /\ WF_vars(Producer)
    /\ WF_vars(Consumer)
    /\ WF_vars(storeReturn)

\* ------------------------------------------------- the functions of a host
\* getDomain, getTLD and generateTag, each called on its own with a host string
MaxLabels == 3

\* the labels host strings are made of; <<>> is the empty label, as in "" or
\* in "example..com"
Labels == {<<>>, <<"www">>, <<"localhost">>, <<"blog">>, <<"example">>, <<"com">>}

\* the host strings of up to MaxLabels labels
HostStrings == {Join(ls) : ls \in SeqsUpTo(Labels, MaxLabels) \ {<<>>}}

\* the run-time panic of an index out of range
OutOfRange == <<"panic", "index out of range">>

\* generateTag: s[0] == "www" is evaluated first, then s[1] is indexed
generateTag(u) ==
    LET s == Split(u)
    IN  IF s[1] = <<"www">> /\ Len(s) > 0
        THEN IF Len(s) > 1 THEN s[2] ELSE OutOfRange
        ELSE s[1]

InitHost ==
    /\ hostArg \in HostStrings
    /\ fnCalled = ""
    /\ fnRet = <<>>
    /\ cfg \in {r \in Runners : r.seed = Http(H_site, "/") /\ r.n = 0 /\ r.tld /\ r.sub
                                /\ r.stopAt = EmptyString /\ r.cancelAt = EmptyString}
    /\ crawlPc = "start"
    /\ crawlErr = FALSE
    /\ dup = {}
    /\ mu = MuFree
    /\ ingestionSet = <<>>
    /\ handled = <<>>
    /\ qState = "none"
    /\ hostQ = [h \in Hosts |-> <<>>]
    /\ w = [h \in Hosts |-> Idle]
    /\ pending = {}
    /\ headSent = [s \in URLStrings |-> 0]
    /\ sinceReq = [h \in Hosts |-> Never]
    /\ wait = [h \in Hosts |-> 0]
    /\ minGap = CrawlDelay
    /\ timer = NoTimer
    /\ StoreIdle

CallGetDomain ==
    /\ fnCalled = ""
    /\ fnCalled' = "getDomain"
    /\ fnRet' = getDomain(hostArg)
    /\ UNCHANGED <<crawlVars, storeVars, hostArg>>

CallGetTLD ==
    /\ fnCalled = ""
    /\ fnCalled' = "getTLD"
    /\ fnRet' = getTLD(hostArg)
    /\ UNCHANGED <<crawlVars, storeVars, hostArg>>

CallGenerateTag ==
    /\ fnCalled = ""
    /\ fnCalled' = "generateTag"
    /\ fnRet' = generateTag(hostArg)
    /\ UNCHANGED <<crawlVars, storeVars, hostArg>>

NextHost ==
    \/ CallGetDomain
    \/ CallGetTLD
    \/ CallGenerateTag

SpecHost == InitHost /\ [][NextHost]_vars

\* ------------------------------------------------------------- properties
AboutURL == Http(H_site, "/about")

C2_DupOnlyGrows == [][dup \subseteq dup']_vars

\* links were admitted, and a Cancel has taken effect after the stop handler
\* and the cap handler both asked for one
C2_Witness ==
    /\ Cardinality(dup) > 1
    /\ qState = "cancelled"
    /\ pending = {"cap", "cancel"} \/ pending = {"cap"} \/ pending = {"cancel"}
    /\ crawlPc = "returned"

\* C3: the seed is in dup before the seed GET is enqueued, and no HEAD is
\* ever sent for a link that refers to the root page (the seed string or its
\* www-stripped form).
RefersToRoot(s) ==
    String(normalizeLink(ParseURL(s))) = String(normalizeLink(ParseURL(cfg.seed)))

C3_RootNeverReadmitted ==
    /\ crawlPc = "blocked" => cfg.seed \in dup
    /\ \A s \in URLStrings : RefersToRoot(s) => headSent[s] = 0

\* C4: with MaximumDocuments = n > 0 the result collection never holds more
\* than n Documents.
C4_AtMostMaxDocs == cfg.n > 0 => Len(ingestionSet) <= cfg.n

\* C5: an invocation of scrapeHandler that starts when the result collection
\* has reached MaximumDocuments requests Cancel and returns: it issues no
\* scrape request, appends nothing, and sends nothing to the queue or the mux.
C5_AfterCapOnlyCancel ==
    [][\A h \in Hosts :
          (/\ w[h].pc = "inflight"
           /\ w'[h].pc # "inflight"
           /\ ~StopMatch(w[h].cmd)
           /\ Len(ingestionSet) >= cfg.n)
          => /\ "cap" \in pending'
             /\ w'[h].pc = "idle"
             /\ UNCHANGED <<ingestionSet, handled, dup, hostQ, headSent, sinceReq, minGap>>]_vars

\* the cap n > 0 was reached and a later invocation has asked for the Cancel
C5_Witness == cfg.n > 0 /\ Len(ingestionSet) >= cfg.n /\ "cap" \in pending

\* C6: with MaximumDocuments = 0 the cap logic never cancels the crawl.
C6_ZeroMeansNoCap == cfg.n = 0 => ("cap" \notin pending /\ qState # "cancelled")

\* C7: with MaximumDocuments < 0 Crawl returns an error and nothing else has
\* happened: no fetcher, no request, nothing queued, dup and the result
\* collection as they were.
C7_NegativeRejected ==
    (cfg.n < 0 /\ crawlPc # "start")
    => /\ crawlPc = "returned"
       /\ crawlErr
       /\ qState = "none"
       /\ dup = {}
       /\ ingestionSet = <<>>
       /\ \A h \in Hosts : hostQ[h] = <<>> /\ w[h] = Idle /\ sinceReq[h] = Never

C7_Witness == cfg.n < 0 /\ crawlPc = "returned" /\ crawlErr

\* C8: every Document of the result collection was appended while handling
\* a GET response with HTML content type and status 200.
C8_OnlyGetHtml200 ==
    \A i \in 1..Len(handled) :
        handled[i].method = "GET" /\ handled[i].ctype = Html /\ handled[i].status = 200

\* C9: when Crawl has returned, the result collection holds at most one
\* Document per link.
C9_OneDocumentPerLink ==
    crawlPc = "returned"
    => \A i, j \in 1..Len(ingestionSet) :
          i # j => ingestionSet[i].link # ingestionSet[j].link

\* C10: between two consecutive HTTP requests to one host at least the crawl
\* delay elapses, the GET of the scrape step included.
C10_CrawlDelayKept == minGap >= CrawlDelay

\* ---------------------------------------------- vocabulary of the claims
\* the command that a step appends to the queue of host g, if it appends one
Added(g) == hostQ'[g][Len(hostQ'[g])]

Appends(g, method) ==
    /\ Len(hostQ'[g]) = Len(hostQ[g]) + 1
    /\ Added(g).method = method

\* worker h is dispatching, in the mux, a HEAD response that succeeded
HeadSucceeded(h) ==
    /\ w[h].pc = "mux"
    /\ w[h].cmd.method = "HEAD"
    /\ ~w[h].res.err
    /\ w[h].res.status = 200
    /\ w[h].res.ctype = Html

\* C11: a GET for a URL other than the seed is enqueued only by the handling
\* of a successful HTML HEAD response of that URL from the seed host, and the
\* handling of every successful HTML HEAD response, with the queue open,
\* enqueues the GET of its URL.
C11_HeadPromotion ==
    [][/\ \A g \in Hosts :
             (Appends(g, "GET") /\ Added(g).url # cfg.seed)
             => \E h \in Hosts : /\ HeadSucceeded(h)
                                 /\ w[h].cmd.url = Added(g).url
                                 /\ ParseURL(w[h].cmd.url).host = ParseURL(cfg.seed).host
       /\ \A h \in Hosts :
             (HeadSucceeded(h) /\ qState = "open" /\ w'[h].pc = "idle")
             => Appends(w[h].cmd.url[2], "GET") /\ Added(w[h].cmd.url[2]).url = w[h].cmd.url
      ]_vars

\* the registrable domain of a host: its last two labels, the whole host
\* when it has no more than two
RegDomain(host) ==
    LET s == Split(host)
    IN  IF Len(s) <= 2 THEN host ELSE s[Len(s) - 1] \o <<Dot>> \o s[Len(s)]

\* the top-level label of a host: its last label
TopLabel(host) == Split(host)[Len(Split(host))]

RootHost == ParseURL(cfg.seed).host

\* worker h is in the loop of enqueueLinks, at the href Href(h)
InLoop(h) == w[h].pc = "links" /\ w[h].i <= Len(Serve(w[h].cmd.url).links)

Href(h) == Serve(w[h].cmd.url).links[w[h].i]

\* the link as enqueueLinks classifies it
Candidate(h) == normalizeLink(ParseURL(Href(h)))

\* the href is no mail link, has no fragment and is not in dup
NotYetSeen(h) ==
    InLoop(h) /\ ~Skipped(ParseURL(Href(h))) /\ String(Candidate(h)) \notin dup

\* the step is the round of the loop for Href(h)
LinkStep(h) == InLoop(h) /\ w'[h].i = w[h].i + 1

\* the step sends the candidate to the queue as a HEAD
HeadEnqueued(h) ==
    LET s == String(Candidate(h))
    IN  s[2] \in Hosts /\ Appends(s[2], "HEAD") /\ Added(s[2]).url = s

\* C12: with TopLevelDomain and Subdomain both set, a not-yet-seen candidate
\* met while the queue is open is enqueued exactly when its registrable
\* domain equals that of the root host.
C12_BothFlags ==
    [][\A h \in Hosts :
          (LinkStep(h) /\ NotYetSeen(h) /\ cfg.tld /\ cfg.sub /\ qState = "open")
          => (HeadEnqueued(h) <=> RegDomain(Candidate(h).host) = RegDomain(RootHost))]_vars

\* C13: with TopLevelDomain set and Subdomain not, a not-yet-seen candidate
\* met while the queue is open is enqueued whenever its registrable domain or
\* its top-level label equals that of the root host.
C13_TldOnly ==
    [][\A h \in Hosts :
          (/\ LinkStep(h) /\ NotYetSeen(h) /\ cfg.tld /\ ~cfg.sub /\ qState = "open"
           /\ \/ RegDomain(Candidate(h).host) = RegDomain(RootHost)
              \/ TopLabel(Candidate(h).host) = TopLabel(RootHost))
          => HeadEnqueued(h)]_vars

\* C14: with Subdomain set and TopLevelDomain not, a not-yet-seen candidate
\* met while the queue is open is enqueued exactly when its registrable
\* domain equals that of the root host.
C14_SubdomainOnly ==
    [][\A h \in Hosts :
          (LinkStep(h) /\ NotYetSeen(h) /\ cfg.sub /\ ~cfg.tld /\ qState = "open")
          => (HeadEnqueued(h) <=> RegDomain(Candidate(h).host) = RegDomain(RootHost))]_vars

\* C15: with neither flag set, every not-yet-seen candidate with a host, met
\* while the queue is open, is enqueued whatever its host.
C15_OpenCrawl ==
    [][\A h \in Hosts :
          (/\ LinkStep(h) /\ NotYetSeen(h) /\ ~cfg.tld /\ ~cfg.sub /\ qState = "open"
           /\ Candidate(h).host # <<>>)
          => HeadEnqueued(h)]_vars

\* a URL string with a scheme and a host
Absolute(s) == s[1] # "" /\ s[2] # <<>>

\* the reference ref resolved against the URL base of the page it stands on
Resolve(base, ref) ==
    IF ref.scheme = "" /\ ref.host = <<>>
    THEN [scheme |-> base.scheme, host |-> base.host, path |-> ref.path, frag |-> ref.frag]
    ELSE ref

\* the URL of the page worker h is reading the links of
Page(h) == ParseURL(w[h].cmd.url)

\* every string in dup, in the queue or in flight is an absolute URL
AllAbsolute ==
    /\ \A s \in dup : Absolute(s)
    /\ \A g \in Hosts : /\ \A k \in 1..Len(hostQ[g]) : Absolute(hostQ[g][k].url)
                        /\ w[g].pc # "idle" => Absolute(w[g].cmd.url)

\* C16: every string in the dedup set or sent to the queue is an absolute
\* URL, and a relative href without fragment met on a page of the root's
\* registrable domain while the queue is open is admitted as the href
\* resolved against the page's URL (/about on http://site.test/ as
\* http://site.test/about).
C16_LinksResolved ==
    /\ []AllAbsolute
    /\ [][\A h \in Hosts :
             (/\ LinkStep(h) /\ cfg.tld /\ cfg.sub /\ qState = "open"
              /\ ~Absolute(Href(h)) /\ ~Skipped(ParseURL(Href(h)))
              /\ RegDomain(normalizeLink(Page(h)).host) = RegDomain(RootHost))
             => String(normalizeLink(Resolve(Page(h), ParseURL(Href(h))))) \in dup']_vars

\* C17: the Document of the page http://site.test/, whose body is
\* <p>Hello</p><p>World</p>, scraped with no tag list, has the page URL as
\* link and exactly "Hello World" as content.
C17_HelloWorld ==
    \A k \in 1..Len(ingestionSet) :
        (Len(Tags) = 0 /\ handled[k].url = Http(H_site, "/"))
        => /\ ingestionSet[k].link = handled[k].url
           /\ ingestionSet[k].content = <<"Hello", Space, "World">>

\* a URL string that is a mail link or carries a fragment
MailOrFragment(s) == s[1] = "mailto" \/ s[4] # ""

\* C18: no string in the dedup set other than the seed, and no HEAD sent by
\* enqueueLinks, is a mail link or carries a fragment; the round of the loop
\* for such an href changes neither the dedup set nor the queue and goes on
\* to the next href of the page.
C18_NoMailNoFragment ==
    /\ [](/\ \A s \in dup \ {cfg.seed} : ~MailOrFragment(s)
          /\ \A s \in URLStrings : headSent[s] > 0 => ~MailOrFragment(s)
          /\ \A g \in Hosts : \A k \in 1..Len(hostQ[g]) : ~MailOrFragment(hostQ[g][k].url))
    /\ [][\A h \in Hosts :
             (InLoop(h) /\ MailOrFragment(Href(h)) /\ w'[h] # w[h])
             => /\ w'[h] = [w[h] EXCEPT !.i = @ + 1]
                /\ UNCHANGED <<dup, hostQ, headSent, qState, crawlErr>>]_vars

\* the loop over the root page is past the mail link and the fragment link,
\* and a link that stands after them has been admitted
C18_Witness ==
    \E h \in Hosts : /\ w[h].pc = "links" /\ w[h].cmd.url = Http(H_site, "/")
                     /\ w[h].i > 9
                     /\ MailOrFragment(RootLinks[5]) /\ MailOrFragment(RootLinks[6])
                     /\ Http(H_site, "/gone") \in dup

\* C19: normalizeLink applied to a link that normalizeLink has returned
\* changes nothing, for every href that enqueueLinks normalizes.
C19_NormalizeIdempotent ==
    \A h \in Hosts : InLoop(h) => normalizeLink(Candidate(h)) = Candidate(h)

\* worker h has a response in hand that is a shutdown trigger: the response
\* for the stop or cancel URL, or the cap found reached by scrapeHandler
Trigger(h) ==
    /\ w[h].pc = "inflight"
    /\ \/ StopMatch(w[h].cmd)
       \/ ~UnderCap(Response(w[h].cmd)) /\ CapHit

\* the goroutine that the handler of worker h starts on its trigger
Shutdown(h) ==
    IF ~StopMatch(w[h].cmd) THEN "cap"
    ELSE IF cfg.cancelAt # EmptyString THEN "cancel" ELSE "close"

\* worker h is idle or at a step of its handler that waits for nothing but mu
NotWaitingForShutdown(h) == w[h].pc \in {"idle", "inflight", "append", "mux", "links"}

\* C20: the handler step that detects a shutdown trigger leaves the queue's
\* state as it is, hands Close or Cancel to a goroutine and returns the
\* worker; no handler waits for the shutdown of its queue: a handler waits
\* at most for mu, which only a worker inside the loop of enqueueLinks holds.
C20_ShutdownAsync ==
    /\ [][\A h \in Hosts :
             (Trigger(h) /\ w'[h] # w[h])
             => /\ qState' = qState
                /\ Shutdown(h) \in pending'
                /\ w'[h].pc = "idle"]_vars
    /\ [](/\ \A h \in Hosts : NotWaitingForShutdown(h)
          /\ mu # MuFree => w[mu].pc = "links")

\* both kinds of trigger were detected, the handlers have returned and the
\* queue is still open: neither goroutine has run yet
C20_Witness ==
    /\ {"cap", "close"} \subseteq pending
    /\ qState = "open"
    /\ \A h \in Hosts : w[h].pc = "idle"

\* the Runner has a StopAtURL and no CancelAtURL
StopAtOnly == cfg.stopAt # EmptyString /\ cfg.cancelAt = EmptyString

SameRunner ==
    /\ cfg.seed = Http(H_site, "/") /\ cfg.tld /\ cfg.sub /\ cfg.n = MaxDocs

StopRun == SameRunner /\ cfg.stopAt = Http(H_a, "/x") /\ cfg.cancelAt = EmptyString

CancelRun == SameRunner /\ cfg.cancelAt = Http(H_a, "/x") /\ cfg.stopAt = EmptyString

\* a run of the StopAtURL variant that has returned with two Documents
C22_StopRunEnds == StopRun /\ crawlPc = "returned" /\ Len(ingestionSet) = 2

C23_EachDurationFires ==
    timer.pc = "done"
    => /\ cfg.stopDur > 0 => <<"close", cfg.stopDur>> \in timer.called
       /\ cfg.cancelDur > 0 => <<"cancel", cfg.cancelDur>> \in timer.called

\* the frontier has drained: Crawl waits in Block, the queue is open, nothing
\* is queued or in flight and no handler runs
FrontierDrained ==
    /\ crawlPc = "blocked" /\ qState = "open"
    /\ \E h \in Hosts : sinceReq[h] # Never
    /\ \A h \in Hosts : w[h].pc = "idle" /\ hostQ[h] = <<>>

\* something is still to come that shuts the queue down
ShutdownAhead == pending # {} \/ timer.pc = "armed" \/ cfg.autoClose

\* C24: when the frontier has drained the queue is shut down and Block
\* returns, with AutoClose set or not: there is no state in which the
\* frontier has drained, the queue is open and nothing is left that closes it.
C24_DrainReturns == ~(FrontierDrained /\ ~ShutdownAhead)

\* the item that worker h handles is a failing one: the fetch failed, the
\* status is not 200, or the GET of the scrape fails
FailingItem(h) ==
    /\ w[h].pc \in {"inflight", "append", "mux"}
    /\ \/ Response(w[h].cmd).err
       \/ Response(w[h].cmd).status # 200
       \/ Serve(w[h].cmd.url).scrapeErr

\* the Documents of the result collection that are scraped pages, not the
\* zero Document
Scraped == {k \in 1..Len(ingestionSet) : ingestionSet[k] # EmptyDocument}

\* C25: a handler step for a failing item, or for an href without a host,
\* requests no shutdown, changes neither the queue's state nor Crawl's and
\* drops no queued command; and the run is not cut short because of
\* failures: when the cap has cancelled the queue with commands still queued,
\* MaximumDocuments pages have been scraped.
C25_FailureIsLocal ==
    /\ [][\A h \in Hosts :
             (/\ w'[h] # w[h]
              /\ \/ FailingItem(h) /\ ~Trigger(h)
                 \/ InLoop(h) /\ ~Absolute(Href(h)))
             => /\ qState' = qState /\ pending' = pending
                /\ crawlPc' = crawlPc /\ crawlErr' = crawlErr
                /\ \A g \in Hosts : Len(hostQ'[g]) >= Len(hostQ[g])]_vars
    /\ []((/\ cfg.cancelAt = EmptyString /\ cfg.n > 0 /\ qState = "cancelled"
           /\ \E g \in Hosts : hostQ[g] # <<>>)
          => Cardinality(Scraped) >= cfg.n)

\* C26: the step after a failed scrape leaves the result collection as it
\* is: no Document is appended for the page and the count toward
\* MaximumDocuments does not change.
C26_NoDocumentOnScrapeError ==
    [][\A h \in Hosts :
          (w[h].pc = "append" /\ Serve(w[h].cmd.url).scrapeErr /\ w'[h] # w[h])
          => ingestionSet' = ingestionSet]_vars

RECURSIVE FirstDescription(_)
\* the content of the first meta element named description, whatever the
\* case of the name; the empty string when there is none
FirstDescription(metas) ==
    IF metas = <<>> THEN <<>>
    ELSE IF ToLower(Head(metas).name) = "description"
         THEN TrimSpace(Head(metas).content)
         ELSE FirstDescription(Tail(metas))

\* C27: the description of every scraped Document is the content of the
\* first description meta element of its page, and the empty string for a
\* page without one.
C27_FirstDescription ==
    \A k \in Scraped :
        ingestionSet[k].description = FirstDescription(Metas(ingestionSet[k].link))

\* C28: every call of Crawl starts from an empty dedup set and an empty
\* result collection, whatever calls came before it.
C28_CrawlStartsEmpty ==
    crawlPc = "started" => dup = {} /\ ingestionSet = <<>>

\* C29: an invalid request makes Store return the failure of the first check
\* that fails (host, index, type, count) to its caller, with no client made
\* and no document sent.
C29_InvalidRejected ==
    (Invalid # "" /\ storePc # "start")
    => /\ storePc = "returned" /\ storeErr = Invalid
       /\ ~client /\ commits = <<>> /\ bulk = <<>> /\ total = 0

RECURSIVE Sent(_)
\* the documents of a sequence of bulk commits, one after the other
Sent(cs) == IF cs = <<>> THEN <<>> ELSE Head(cs).docs \o Sent(Tail(cs))

\* the names of a sequence of documents
Names(ds) == [k \in 1..Len(ds) |-> ds[k].name]

\* C30: when Store has returned nil, the documents of the bulk commits, in
\* the order sent, are exactly docs (each handed over once, in order, and in
\* one commit), no commit has more than BatchSize documents, nothing is left
\* unsent, and every commit was accepted by the sink.
C30_AllCommittedOnce ==
    (storePc = "returned" /\ storeErr = "")
    => /\ Names(Sent(commits)) = Names(docs)
       /\ total = Len(docs)
       /\ bulk = <<>>
       /\ \A k \in 1..Len(commits) : /\ Len(commits[k].docs) <= BatchSize
                                     /\ commits[k].outcome = "ok"

\* a bulk commit of this call failed or came back with per-item failures
CommitFailed == \E k \in 1..Len(commits) : commits[k].outcome # "ok"

\* C31: when a bulk commit of Store, a full batch or the final one, fails or
\* reports per-item failures, Store does not end in success: it returns a
\* failure to its caller.
C31_CommitFailureReturned ==
    (CommitFailed /\ prod.pc = "done" /\ cons.pc = "done" /\ storePc # "wait")
    => (storePc = "returned" /\ storeErr # "")

\* C32: getDomain never indexes out of range; it returns the host unchanged
\* when the host has one or two labels, and its last two labels joined by a
\* dot when it has three or more.
C32_GetDomainReference ==
    fnCalled = "getDomain"
    => /\ fnRet # OutOfRange
       /\ fnRet = RegDomain(hostArg)

\* C33: getTLD returns the last dot-separated label of the host.
C33_GetTLDLastLabel == fnCalled = "getTLD" => fnRet = TopLabel(hostArg)

\* the label the tag of a host is: the second when the first is www and
\* there is a second, else the first
TagLabel(host) ==
    LET s == Split(host)
    IN  IF s[1] = <<"www">> /\ Len(s) > 1 THEN s[2] ELSE s[1]

\* C34: generateTag never indexes out of range, the host www included; it
\* returns the second label when the first is www, the first otherwise.
C34_GenerateTagReference ==
    fnCalled = "generateTag"
    => /\ fnRet # OutOfRange
       /\ fnRet = TagLabel(hostArg)

\* both URLs are set, to different pages
BothSet ==
    cfg.stopAt # EmptyString /\ cfg.cancelAt # EmptyString /\ cfg.stopAt # cfg.cancelAt

\* the handler takes the response for URL string s at worker h
Takes(h, s) == w[h].pc = "inflight" /\ w[h].cmd.url = s /\ w'[h] # w[h]

GetOfStopURL(cmd) == cmd.url = StopURL /\ cmd.method = "GET"

\* C36: the response for the watched stop or cancel URL is taken by
\* stopHandler alone.  Its handling appends no Document, enqueues nothing,
\* leaves the dedup set alone and returns at once; no Document has that
\* link or comes from that response; and no GET for that URL is ever queued
\* or in flight (its HEAD is not promoted).
C36_StopResponseConsumed ==
    /\ [](Wrapped =>
            /\ \A k \in 1..Len(ingestionSet) :
                  ingestionSet[k].link # StopURL /\ handled[k].url # StopURL
            /\ \A g \in Hosts :
                  /\ \A k \in 1..Len(hostQ[g]) : ~GetOfStopURL(hostQ[g][k])
                  /\ w[g].pc # "idle" => ~GetOfStopURL(w[g].cmd))
    /\ [][Wrapped =>
            \A h \in Hosts :
               Takes(h, StopURL)
               => /\ w'[h] = Idle
                  /\ ingestionSet' = ingestionSet /\ handled' = handled
                  /\ hostQ' = hostQ /\ dup' = dup /\ headSent' = headSent
         ]_vars

\* the HEAD response for the watched URL http://site.test/about, a page
\* with links, has been taken: its shutdown is started and the worker is idle
C36_Witness ==
    /\ Wrapped /\ StopURL = AboutURL
    /\ headSent[StopURL] = 1
    /\ pending \cap {"close", "cancel"} # {}
    /\ w[H_site] = Idle

\* the queue has been closed or cancelled: every send fails
QueueShut == qState \in {"closed", "cancelled"}

\* C37: every string of the dedup set is the seed URL string or was sent to
\* the queue as a HEAD; a round of the link loop that marks a string marks
\* the www-stripped candidate and in the same step appends a HEAD for
\* exactly that string to the queue; once the queue is closed or cancelled
\* the dedup set no longer changes.
C37_DupIsSeedOrSent ==
    /\ [](\A s \in dup : s = cfg.seed \/ headSent[s] >= 1)
    /\ [][/\ QueueShut => dup' = dup
          /\ \A h \in Hosts :
                (LinkStep(h) /\ dup' # dup)
                => /\ dup' = dup \cup {String(Candidate(h))}
                   /\ HeadEnqueued(h)
         ]_vars

\* a link that would be admitted is met after the queue was shut, with a
\* string sent earlier as a HEAD already in the dedup set
C37_Witness ==
    /\ QueueShut
    /\ \E s \in dup : s # cfg.seed
    /\ \E h \in Hosts : NotYetSeen(h) /\ InScope(Candidate(h))

\* Store has ended: it returned, or log.Fatal ended the process after Wait
StoreEnded == storePc \in {"returned", "exited"}

\* C38: once the two goroutines of Store are started, both of them end and
\* g.Wait() returns, whatever the sink answers and whether or not an ID
\* could be generated.
C38_PipelineTerminates ==
    (storePc = "wait") ~> (prod.pc = "done" /\ cons.pc = "done" /\ StoreEnded)

\* the second goroutine failed on a bulk commit while the first was blocked
\* in its send, and both have ended
C38_Witness ==
    /\ StoreEnded
    /\ cons.pc = "done" /\ cons.err \in {"bulk.Do error", "bulk commit failed"}
    /\ prod.pc = "done" /\ prod.err = "context canceled"

\* C39: every document offered to the second goroutine, added to a bulk
\* request or sent in a commit has a non-empty ID, and the one offered is
\* the next document of docs but for its ID; no step of Store changes docs.
C39_IDOnCopy ==
    /\ [](/\ prod.pc = "send"
             => (prod.v.ID # "" /\ prod.v.name = docs[prod.i].name)
          /\ \A k \in 1..Len(bulk) : bulk[k].ID # ""
          /\ \A k \in 1..Len(Sent(commits)) : Sent(commits)[k].ID # "")
    /\ [][docs' = docs]_vars

\* Store has returned after sending every document of a docs that has both a
\* document without ID and one with an ID of its own
C39_Witness ==
    /\ storePc = "returned"
    /\ Len(Sent(commits)) = Len(docs)
    /\ \E j, k \in 1..Len(docs) : docs[j].ID = "" /\ docs[k].ID = "given"

====
